---- MODULE Spec2Model ----
(***************************************************************************)
(* easytcp: the router (src/router/router.go) dispatching the requests of  *)
(* one session, and the server's accept loop (src/unnamed/part_001).       *)
(*                                                                         *)
(* A function value (a HandlerFunc or a MiddlewareFunc) is a positive      *)
(* number, given in the order the non-nil function arguments reach the     *)
(* router; Nil is Go's nil.  A composed HandlerFunc is the sequence of the *)
(* functions it enters, outermost first.                                   *)
(*                                                                         *)
(* Registration (Register, RegisterMiddleware, the not-found handler) is   *)
(* done before Loop starts on the session.  The session (RecvReq,          *)
(* SendResp, its close) and the connection's Closed signal are not in the  *)
(* sources: they follow the specification's 4.2 and 4.3, with Go's channel *)
(* rules (a closed channel still delivers what it holds).                  *)
(*                                                                         *)
(* The session registry (Manager, Sessions()) is not in the sources either, *)
(* only its tests are: it follows them and the specification's 6.          *)
(*                                                                         *)
(* Spec and FairSpec are the router on one session, RaceSpec the same      *)
(* router after a setup with three global middlewares, ServerSpec the      *)
(* server and its connections, RegistrySpec the goroutines that use the    *)
(* session registry.                                                       *)
(***************************************************************************)
EXTENDS Integers, Sequences, FiniteSets, TLC

\* ---------------------------------------------------------------- bounds
MaxSetup == 2    \* registration calls made before the loop starts
MaxArgs == 2     \* middleware arguments of one variadic call
MaxReqs == 2     \* requests the read loop puts on the session's channel
MaxConns == 2    \* connections the clients open to the listener
MaxProcs == 3    \* goroutines of the application that use the session registry

\* -------------------------------------------------------------- constants
Nil == 0
defaultHandler == -1
Ids == {1, 2}

VARIABLES
    phase,              \* "setup" (registration) or "serve" (Loop running)
    nFn,                \* function values handed to the router so far
    calls,              \* the registration calls made, in order, each with the
                        \* functions (the non-nil arguments) it gave (history)
    handlerMapper,      \* Router.handlerMapper: id -> handler, Nil when absent
    middlewaresMapper,  \* Router.middlewaresMapper: id -> list, <<>> when absent
    gLen,               \* len(Router.globalMiddlewares)
    gArr,               \* the array behind Router.globalMiddlewares (cap = Len)
    notFoundHandler,    \* the configured not-found handler, Nil when none
    loopPc,             \* Router.Loop: "idle", "run", "exit"
    inbox,              \* the channel s.RecvReq(): requests not yet received
    produced,           \* every request the read loop has put on the channel
    closed,             \* the session is closed (RecvReq closed with it)
    gs,                 \* the goroutines Loop started, one per request
    outbox,             \* the responses SendResp accepted, in order
    srvPc,              \* Server: "new", then keepAccepting's place, or "returned"
    srvErr,             \* the error Serve returned, "none" until then
    onConnectedFn,      \* Server.onConnectedFn is set (not nil)
    onDisconnectFn,     \* Server.onDisconnectFn is set (not nil)
    conns,              \* the connections accepted, in order, with their events
    manager,            \* package session's manager: Nil, or the Manager made
    inits,              \* how many Managers have been made (history)
    onceHeld,           \* the goroutine inside once.Do, Nil when none
    mgSessions,         \* Manager.Sessions (sync.Map): session id -> session
    procs,              \* the application's goroutines: place, Sessions() result
    nilAdds,            \* Add(nil) calls that have returned (history)
    lastGet,            \* the latest Get: its id and what it returned (history)
    lastRange           \* the latest Range: the sessions it visited, and how
                        \* many Add(session) calls had returned by then (history)

routerVars == <<phase, nFn, calls, handlerMapper, middlewaresMapper, gLen, gArr,
          notFoundHandler, loopPc, inbox, produced, closed, gs, outbox>>

registryVars == <<manager, inits, onceHeld, mgSessions, procs, nilAdds, lastGet,
                  lastRange>>

serverVars == <<srvPc, srvErr, onConnectedFn, onDisconnectFn, conns, registryVars>>

vars == <<routerVars, serverVars>>

setupVars == <<nFn, calls, handlerMapper, middlewaresMapper, gLen,
               notFoundHandler>>

\* ------------------------------------------------------------ Go slices
\* append's growth of a full slice by one element (runtime growslice): the
\* capacity doubles, from 0 it becomes 1: 1, 2, 4, 8, 16.
growCap(oldCap, need) == IF need > 2 * oldCap THEN need ELSE 2 * oldCap

Zeros(n) == [i \in 1..n |-> Nil]

\* append(s, x) for the slice (arr, len): <<arr', len'>>
appendOne(arr, len, x) ==
    IF len + 1 <= Len(arr)
    THEN <<[arr EXCEPT ![len + 1] = x], len + 1>>
    ELSE <<SubSeq(arr, 1, len) \o <<x>> \o Zeros(growCap(Len(arr), len + 1) - len - 1),
           len + 1>>

\* ----------------------------------------------------------- New
RouterInit ==
    /\ phase = "setup"
    /\ nFn = 0
    /\ calls = <<>>
    /\ handlerMapper = [i \in Ids |-> Nil]
    /\ middlewaresMapper = [i \in Ids |-> <<>>]
    /\ gLen = 0
    /\ gArr = <<>>
    /\ notFoundHandler = Nil
    /\ loopPc = "idle"
    /\ inbox = <<>>
    /\ produced = <<>>
    /\ closed = FALSE
    /\ gs = <<>>
    /\ outbox = <<>>

\* ------------------------------------------------- arguments of the calls
\* The shapes of a variadic middleware argument list: TRUE is a function,
\* FALSE a nil argument.
ArgShapes == UNION {[1..n -> BOOLEAN] : n \in 0..MaxArgs}

\* The functions among the arguments m, in order.
FnsOf(m) == SelectSeq(m, LAMBDA x : x # Nil)

CountFns(shape, i) == Cardinality({j \in 1..i : shape[j]})

\* The argument list of that shape, its functions numbered after base.
Args(shape, base) ==
    [i \in 1..Len(shape) |-> IF shape[i] THEN base + CountFns(shape, i) ELSE Nil]

\* ------------------------------------------------------------- Register
\* Faulty variant: the first handler registered for an id is kept.
registerHandlerFirst(old, h) == IF old # Nil THEN old ELSE h

\* if h != nil { r.handlerMapper.Store(id, h) }
registerHandler(old, h) == IF h # Nil THEN h ELSE old

\* Faulty variant: the nil arguments are kept.
nonNilKeepAll(m) == m

\* ms: the non-nil arguments, in order
nonNil(m) == SelectSeq(m, LAMBDA mm : mm # Nil)

\* Faulty variant: the middlewares are appended to the id's list.
registerMiddlewaresAppend(old, m) == old \o SelectSeq(m, LAMBDA mm : mm # Nil)

\* if len(m) != 0 { ...; if len(ms) != 0 { r.middlewaresMapper.Store(id, ms) } }
registerMiddlewares(old, m) ==
    IF Len(m) # 0
    THEN IF Len(nonNil(m)) # 0 THEN nonNil(m) ELSE old
    ELSE old

Register(id, h, m) ==
    /\ handlerMapper' = [handlerMapper EXCEPT ![id] = registerHandler(@, h)]
    /\ middlewaresMapper' = [middlewaresMapper EXCEPT ![id] = registerMiddlewares(@, m)]

RegisterCall ==
    /\ phase = "setup"
    /\ Len(calls) < MaxSetup
    /\ \E id \in Ids, hasH \in BOOLEAN, shape \in ArgShapes :
          LET h == IF hasH THEN nFn + 1 ELSE Nil
              base == IF hasH THEN nFn + 1 ELSE nFn
              m == Args(shape, base)
          IN  /\ Register(id, h, m)
              /\ nFn' = base + CountFns(shape, Len(shape))
              /\ calls' = Append(calls, [op |-> "Register", id |-> id, h |-> h,
                                         m |-> FnsOf(m)])
    /\ UNCHANGED <<serverVars, phase, gLen, gArr, notFoundHandler, loopPc, inbox, produced,
                   closed, gs, outbox>>

\* --------------------------------------------------- RegisterMiddleware
RECURSIVE appendEach(_, _, _, _)
\* for _, mm := range m { if mm != nil { r.globalMiddlewares = append(...) } }
appendEach(arr, len, m, i) ==
    IF i > Len(m) THEN <<arr, len>>
    ELSE IF m[i] # Nil
         THEN LET s == appendOne(arr, len, m[i]) IN appendEach(s[1], s[2], m, i + 1)
         ELSE appendEach(arr, len, m, i + 1)

RegisterMiddleware(m) ==
    LET s == IF Len(m) # 0 THEN appendEach(gArr, gLen, m, 1) ELSE <<gArr, gLen>>
    IN  /\ gArr' = s[1]
        /\ gLen' = s[2]

RegisterMiddlewareCall ==
    /\ phase = "setup"
    /\ Len(calls) < MaxSetup
    /\ \E shape \in ArgShapes :
          /\ RegisterMiddleware(Args(shape, nFn))
          /\ nFn' = nFn + CountFns(shape, Len(shape))
          /\ calls' = Append(calls, [op |-> "RegisterMiddleware", id |-> Nil, h |-> Nil,
                                     m |-> FnsOf(Args(shape, nFn))])
    /\ UNCHANGED <<serverVars, phase, handlerMapper, middlewaresMapper, notFoundHandler, loopPc,
                   inbox, produced, closed, gs, outbox>>

\* The middlewares registered globally, in registration order.
globalMiddlewares == SubSeq(gArr, 1, gLen)

\* ------------------------------------------------------ NotFoundHandler
\* Configures the handler of the ids that have none.
NotFoundHandler ==
    /\ phase = "setup"
    /\ Len(calls) < MaxSetup
    /\ notFoundHandler' = nFn + 1
    /\ nFn' = nFn + 1
    /\ calls' = Append(calls, [op |-> "NotFoundHandler", id |-> Nil, h |-> nFn + 1,
                               m |-> <<>>])
    /\ UNCHANGED <<serverVars, phase, handlerMapper, middlewaresMapper, gLen, gArr, loopPc,
                   inbox, produced, closed, gs, outbox>>

\* ------------------------------------------------------------ the session
\* Loop(s) is started on the session once registration is over.
StartLoop ==
    /\ phase = "setup"
    /\ phase' = "serve"
    /\ loopPc' = "run"
    /\ UNCHANGED <<serverVars, setupVars, gArr, inbox, produced, closed, gs, outbox>>

\* The session's read loop puts a request (or a nil request) on the channel.
Enqueue(req) ==
    /\ phase = "serve"
    /\ ~closed
    /\ Len(produced) < MaxReqs
    /\ inbox' = Append(inbox, req)
    /\ produced' = Append(produced, req)
    /\ UNCHANGED <<serverVars, phase, setupVars, gArr, loopPc, closed, gs, outbox>>

\* The connection is torn down: the session closes, and its channel with it.
CloseSession ==
    /\ phase = "serve"
    /\ ~closed
    /\ closed' = TRUE
    /\ UNCHANGED <<serverVars, phase, setupVars, gArr, loopPc, inbox, produced, gs, outbox>>

\* s.SendResp(resp) of goroutine g: an error when the session is closed.
SendResp(g) ==
    IF closed
    THEN /\ gs' = [gs EXCEPT ![g].pc = "done", ![g].sends = @ + 1, ![g].err = "send"]
         /\ UNCHANGED outbox
    ELSE /\ gs' = [gs EXCEPT ![g].pc = "done", ![g].sends = @ + 1]
         /\ outbox' = Append(outbox, g)

\* ------------------------------------------------------------------ Loop
\* The goroutine of `go func() { r.handleReq(s, req) }()`.
NewGoroutine(req) ==
    [id |-> req, pc |-> "start", handler |-> Nil, shared |-> FALSE, n |-> 0,
     own |-> <<>>, wrapped |-> <<>>, entered |-> <<>>, result |-> "none",
     sends |-> 0, err |-> "none"]

\* Faulty variant: a request that arrives while a handler is running is dropped.
LoopRecvDrop ==
    /\ loopPc = "run"
    /\ \/ /\ inbox = <<>>
          /\ closed
          /\ loopPc' = "exit"
          /\ UNCHANGED <<inbox, gs>>
       \/ /\ inbox # <<>>
          /\ \/ Head(inbox) = Nil
             \/ \E g \in 1..Len(gs) : gs[g].pc # "done"
          /\ inbox' = Tail(inbox)
          /\ UNCHANGED <<loopPc, gs>>
       \/ /\ inbox # <<>>
          /\ Head(inbox) # Nil
          /\ \A g \in 1..Len(gs) : gs[g].pc = "done"
          /\ inbox' = Tail(inbox)
          /\ gs' = Append(gs, NewGoroutine(Head(inbox)))
          /\ UNCHANGED loopPc
    /\ UNCHANGED <<serverVars, phase, setupVars, gArr, produced, closed, outbox>>

\* Faulty variant: handleReq is called in the loop itself, without `go`.
LoopRecvInline ==
    /\ loopPc = "run"
    /\ \A g \in 1..Len(gs) : gs[g].pc = "done"
    /\ \/ /\ inbox = <<>>
          /\ closed
          /\ loopPc' = "exit"
          /\ UNCHANGED <<inbox, gs>>
       \/ /\ inbox # <<>>
          /\ Head(inbox) = Nil
          /\ inbox' = Tail(inbox)
          /\ UNCHANGED <<loopPc, gs>>
       \/ /\ inbox # <<>>
          /\ Head(inbox) # Nil
          /\ inbox' = Tail(inbox)
          /\ gs' = Append(gs, NewGoroutine(Head(inbox)))
          /\ UNCHANGED loopPc
    /\ UNCHANGED <<serverVars, phase, setupVars, gArr, produced, closed, outbox>>

\* Faulty variant: a nil request ends the loop (break instead of continue).
LoopRecvBreakOnNil ==
    /\ loopPc = "run"
    /\ \/ /\ inbox = <<>>
          /\ closed
          /\ loopPc' = "exit"
          /\ UNCHANGED <<inbox, gs>>
       \/ /\ inbox # <<>>
          /\ Head(inbox) = Nil
          /\ inbox' = Tail(inbox)
          /\ loopPc' = "exit"
          /\ UNCHANGED gs
       \/ /\ inbox # <<>>
          /\ Head(inbox) # Nil
          /\ inbox' = Tail(inbox)
          /\ gs' = Append(gs, NewGoroutine(Head(inbox)))
          /\ UNCHANGED loopPc
    /\ UNCHANGED <<serverVars, phase, setupVars, gArr, produced, closed, outbox>>

LoopRecv ==
    /\ loopPc = "run"
    /\ \/ /\ inbox = <<>>           \* req, ok := <-s.RecvReq(); !ok: break
          /\ closed
          /\ loopPc' = "exit"
          /\ UNCHANGED <<inbox, gs>>
       \/ /\ inbox # <<>>           \* req == nil: continue
          /\ Head(inbox) = Nil
          /\ inbox' = Tail(inbox)
          /\ UNCHANGED <<loopPc, gs>>
       \/ /\ inbox # <<>>           \* go func() { ... }()
          /\ Head(inbox) # Nil
          /\ inbox' = Tail(inbox)
          /\ gs' = Append(gs, NewGoroutine(Head(inbox)))
          /\ UNCHANGED loopPc
    /\ UNCHANGED <<serverVars, phase, setupVars, gArr, produced, closed, outbox>>

\* ------------------------------------------------------------- handleReq
\* handler, middles: the loads, and append(middles, v...) on the global slice
\* (written in place, in the shared array, when its capacity allows).
hLoad(g) ==
    /\ g \in 1..Len(gs)
    /\ gs[g].pc = "start"
    /\ LET v == middlewaresMapper[gs[g].id]
           h == handlerMapper[gs[g].id]
       IN  IF v = <<>>
           THEN /\ gs' = [gs EXCEPT ![g].pc = "loaded", ![g].handler = h,
                                    ![g].shared = TRUE, ![g].n = gLen]
                /\ UNCHANGED gArr
           ELSE IF gLen + Len(v) <= Len(gArr)
           THEN /\ gArr' = [i \in 1..Len(gArr) |->
                              IF i > gLen /\ i <= gLen + Len(v) THEN v[i - gLen]
                              ELSE gArr[i]]
                /\ gs' = [gs EXCEPT ![g].pc = "loaded", ![g].handler = h,
                                    ![g].shared = TRUE, ![g].n = gLen + Len(v)]
           ELSE /\ gs' = [gs EXCEPT ![g].pc = "loaded", ![g].handler = h,
                                    ![g].own = SubSeq(gArr, 1, gLen) \o v,
                                    ![g].n = gLen + Len(v)]
                /\ UNCHANGED gArr
    /\ UNCHANGED <<serverVars, phase, setupVars, loopPc, inbox, produced, closed, outbox>>

\* The handler of the ids that have none.
fallbackHandler == IF notFoundHandler # Nil THEN notFoundHandler ELSE defaultHandler

RECURSIVE wrapLoopForward(_, _, _)
\* Faulty variant: the loop runs forward, for i := 0; i < len(middles); i++.
wrapLoopForward(middles, i, wrapped) ==
    IF i < 1 THEN wrapped
    ELSE wrapLoopForward(middles, i - 1, <<middles[Len(middles) - i + 1]>> \o wrapped)

RECURSIVE wrapLoop(_, _, _)
\* for i := len(middles) - 1; i >= 0; i-- { wrapped = middles[i](wrapped) }
wrapLoop(middles, i, wrapped) ==
    IF i < 1 THEN wrapped
    ELSE wrapLoop(middles, i - 1, <<middles[i]>> \o wrapped)

wrapHandlers(handler, middles) ==
    LET hh == IF handler = Nil THEN fallbackHandler ELSE handler
    IN  wrapLoop(middles, Len(middles), <<hh>>)

\* middles as goroutine g sees it
middlesOf(g) == IF gs[g].shared THEN SubSeq(gArr, 1, gs[g].n) ELSE gs[g].own

hWrap(g) ==
    /\ g \in 1..Len(gs)
    /\ gs[g].pc = "loaded"
    /\ gs' = [gs EXCEPT ![g].pc = "wrapped",
                        ![g].wrapped = wrapHandlers(gs[g].handler, middlesOf(g))]
    /\ UNCHANGED <<serverVars, phase, setupVars, gArr, loopPc, inbox, produced, closed, outbox>>

\* Faulty variant: defaultHandler answers like any handler.
HandlerResultsDefaultReplies(h) == {"resp", "nil", "err", "block"}

\* What a call of handler h may do: return a response, return nil, return an
\* error, or never return.  defaultHandler returns nil, nil.
HandlerResults(h) ==
    IF h = defaultHandler THEN {"nil"} ELSE {"resp", "nil", "err", "block"}

\* What a middleware that does not call next may return.
MiddlewareResults == {"resp", "err"}

\* Faulty variant: the error of the chain is not checked before the response is sent.
afterCallIgnoreErr(res) ==
    CASE res = "block" -> "blocked"
      [] res \in {"resp", "err"} -> "send"
      [] OTHER -> "done"

\* if err != nil { return ... }; if resp == nil { return nil }; SendResp(resp)
afterCall(res) ==
    CASE res = "block" -> "blocked"
      [] res = "resp" -> "send"
      [] OTHER -> "done"

\* resp, err := wrapped(s, req): the first k - 1 functions call next and return
\* what it returns, function k returns (or blocks).
hCall(g) ==
    /\ g \in 1..Len(gs)
    /\ gs[g].pc = "wrapped"
    /\ \E k \in 1..Len(gs[g].wrapped) :
       \E res \in (IF k = Len(gs[g].wrapped) THEN HandlerResults(gs[g].wrapped[k])
                   ELSE MiddlewareResults) :
          gs' = [gs EXCEPT ![g].entered = SubSeq(gs[g].wrapped, 1, k),
                           ![g].result = res,
                           ![g].err = IF res = "err" THEN "handler" ELSE "none",
                           ![g].pc = afterCall(res)]
    /\ UNCHANGED <<serverVars, phase, setupVars, gArr, loopPc, inbox, produced, closed, outbox>>

\* Faulty variant: a response waits until the requests taken before it are
\* done with theirs.
hSendInOrder(g) ==
    /\ g \in 1..Len(gs)
    /\ gs[g].pc = "send"
    /\ \A k \in 1..(g - 1) : gs[k].pc \in {"done", "blocked"}
    /\ SendResp(g)
    /\ UNCHANGED <<serverVars, phase, setupVars, gArr, loopPc, inbox, produced, closed>>

\* if _, err := s.SendResp(resp); err != nil { return ... }
hSend(g) ==
    /\ g \in 1..Len(gs)
    /\ gs[g].pc = "send"
    /\ SendResp(g)
    /\ UNCHANGED <<serverVars, phase, setupVars, gArr, loopPc, inbox, produced, closed>>

handleReq(g) == hLoad(g) \/ hWrap(g) \/ hCall(g) \/ hSend(g)

\* ---------------------------------------------------------------- Server
\* NewServer: no hooks, no listener yet.
ServerInit ==
    /\ srvPc = "new"
    /\ srvErr = "none"
    /\ onConnectedFn = FALSE
    /\ onDisconnectFn = FALSE
    /\ conns = <<>>

\* ------------------------------------------------------ session registry
Procs == 1..MaxProcs

NoSessions == [id \in {} |-> Nil]

\* No Sessions() call yet: manager is nil; the application's goroutines are
\* about to make their first call.
RegistryInit ==
    /\ manager = Nil
    /\ inits = 0
    /\ onceHeld = Nil
    /\ mgSessions = NoSessions
    /\ procs = [p \in Procs |-> [pc |-> "start", mgr |-> Nil]]
    /\ nilAdds = 0
    /\ lastGet = <<>>
    /\ lastRange = <<>>

\* sync.Map: Store, Load (the value, and whether the key is present), Delete.
Store(m, k, v) == [x \in DOMAIN m \cup {k} |-> IF x = k THEN v ELSE m[x]]

Load(m, k) == IF k \in DOMAIN m THEN <<m[k], TRUE>> ELSE <<Nil, FALSE>>

Delete(m, k) == [x \in DOMAIN m \ {k} |-> m[x]]

\* The session of goroutine n (or of the n-th connection): its ID() is n. A nil
\* Session is the session with no id.
NewSession(n) == [id |-> n, conn |-> n]

NoSession == [id |-> Nil, conn |-> Nil]

\* Faulty variant: Add stores whatever it is given, under its ID().
AddUnchecked(m, sess) == Store(m, sess.id, sess)

\* Manager.Add: a nil session is ignored, any other is stored under its ID().
Add(m, sess) == IF sess = NoSession THEN m ELSE Store(m, sess.id, sess)

\* Manager.Get: the session stored under id, nil when there is none.
Get(m, id) == IF Load(m, id)[2] THEN Load(m, id)[1] ELSE NoSession

\* Manager.Range: the sessions the callback is given.
Range(m) == {m[k] : k \in DOMAIN m}

\* Manager.Remove
Remove(m, id) == Delete(m, id)

\* Faulty variant: the first call is not guarded, any goroutine may run it.
OnceFreeAlways == TRUE

\* once.Do lets one goroutine at a time in.
OnceFree == onceHeld = Nil

Using(p) == procs[p].pc \in {"have", "added"}

\* Sessions(): once.Do(...) is entered. With the manager made the call
\* returns it; otherwise the goroutine goes on to make it, alone.
SessionsEnter(p) ==
    /\ procs[p].pc = "start"
    /\ IF manager # Nil
       THEN /\ procs' = [procs EXCEPT ![p] = [pc |-> "have", mgr |-> manager]]
            /\ UNCHANGED onceHeld
       ELSE /\ OnceFree
            /\ onceHeld' = p
            /\ procs' = [procs EXCEPT ![p].pc = "init"]
    /\ UNCHANGED <<routerVars, srvPc, srvErr, onConnectedFn, onDisconnectFn, conns,
                   manager, inits, mgSessions, nilAdds, lastGet, lastRange>>

\* Sessions(): manager = &Manager{} inside once.Do, then return manager.
SessionsInit(p) ==
    /\ procs[p].pc = "init"
    /\ manager' = inits + 1
    /\ inits' = inits + 1
    /\ onceHeld' = Nil
    /\ procs' = [procs EXCEPT ![p] = [pc |-> "have", mgr |-> inits + 1]]
    /\ UNCHANGED <<routerVars, srvPc, srvErr, onConnectedFn, onDisconnectFn, conns,
                   mgSessions, nilAdds, lastGet, lastRange>>

\* Sessions().Add(sess) with the goroutine's own session.
AddCall(p) ==
    /\ procs[p].pc = "have"
    /\ mgSessions' = Add(mgSessions, NewSession(p))
    /\ procs' = [procs EXCEPT ![p].pc = "added"]
    /\ UNCHANGED <<routerVars, srvPc, srvErr, onConnectedFn, onDisconnectFn, conns,
                   manager, inits, onceHeld, nilAdds, lastGet, lastRange>>

\* Sessions().Add(nil)
AddNil(p) ==
    /\ Using(p)
    /\ nilAdds < MaxProcs
    /\ mgSessions' = Add(mgSessions, NoSession)
    /\ nilAdds' = nilAdds + 1
    /\ UNCHANGED <<routerVars, srvPc, srvErr, onConnectedFn, onDisconnectFn, conns,
                   manager, inits, onceHeld, procs, lastGet, lastRange>>

\* Sessions().Get(id)
GetCall(p, id) ==
    /\ Using(p)
    /\ lastGet' = <<[id |-> id, sess |-> Get(mgSessions, id)]>>
    /\ UNCHANGED <<routerVars, srvPc, srvErr, onConnectedFn, onDisconnectFn, conns,
                   manager, inits, onceHeld, mgSessions, procs, nilAdds, lastRange>>

\* Sessions().Range(fn)
RangeCall(p) ==
    /\ Using(p)
    /\ lastRange' = <<[seen |-> Range(mgSessions),
                       adds |-> Cardinality({q \in Procs : procs[q].pc = "added"})]>>
    /\ UNCHANGED <<routerVars, srvPc, srvErr, onConnectedFn, onDisconnectFn, conns,
                   manager, inits, onceHeld, mgSessions, procs, nilAdds, lastGet>>

Init == RouterInit /\ ServerInit /\ RegistryInit

OnConnected ==
    /\ srvPc = "new"
    /\ ~onConnectedFn
    /\ onConnectedFn' = TRUE
    /\ UNCHANGED <<routerVars, registryVars, srvPc, srvErr, onDisconnectFn, conns>>

OnDisconnect ==
    /\ srvPc = "new"
    /\ ~onDisconnectFn
    /\ onDisconnectFn' = TRUE
    /\ UNCHANGED <<routerVars, registryVars, srvPc, srvErr, onConnectedFn, conns>>

\* net.Listen fails and Serve returns the error, or keepAccepting starts.
Serve ==
    /\ srvPc = "new"
    /\ \/ /\ srvPc' = "returned"
          /\ srvErr' = "listen"
       \/ /\ srvPc' = "accept"
          /\ UNCHANGED srvErr
    /\ UNCHANGED <<routerVars, registryVars, onConnectedFn, onDisconnectFn, conns>>

\* The connection accepted last: the one keepAccepting is working on.
cur == Len(conns)

\* Who may call a connection's Close: its read loop and its write loop when
\* they end, and the application.
Closers == {"read", "write", "app"}

\* NewConnection(rawConn, s); go conn.KeepReading(); go conn.KeepWriting()
\* closedBy: the callers whose Close call has returned; waits: how often the
\* server's receive from conn.Closed has returned (history).
NewConnection == [events |-> <<"read", "write">>, closed |-> FALSE,
                  closedBy |-> {}, waits |-> 0]

\* s.listener.Accept() returns an error, or a client's connection.
Accept ==
    /\ srvPc = "accept"
    /\ \/ /\ srvPc' = "returned"
          /\ srvErr' = "accept"
          /\ UNCHANGED conns
       \/ /\ Len(conns) < MaxConns
          /\ conns' = Append(conns, NewConnection)
          /\ srvPc' = "hook"
          /\ UNCHANGED srvErr
    /\ UNCHANGED <<routerVars, registryVars, onConnectedFn, onDisconnectFn>>

\* if s.onConnectedFn != nil { s.onConnectedFn(conn) }
ConnectHook ==
    /\ srvPc = "hook"
    /\ conns' = IF onConnectedFn
                THEN [conns EXCEPT ![cur].events = Append(@, "connect")]
                ELSE conns
    /\ srvPc' = "wait"
    /\ UNCHANGED <<routerVars, registryVars, srvErr, onConnectedFn, onDisconnectFn>>

\* Faulty variant: the loop does not wait for the closed signal.
WaitClosedNoWait ==
    /\ srvPc = "wait"
    /\ conns' = [conns EXCEPT ![cur].waits = @ + 1]
    /\ srvPc' = "unhook"
    /\ UNCHANGED <<routerVars, registryVars, srvErr, onConnectedFn, onDisconnectFn>>

\* <-conn.Closed
WaitClosed ==
    /\ srvPc = "wait"
    /\ conns[cur].closed
    /\ conns' = [conns EXCEPT ![cur].waits = @ + 1]
    /\ srvPc' = "unhook"
    /\ UNCHANGED <<routerVars, registryVars, srvErr, onConnectedFn, onDisconnectFn>>

\* Faulty variant: the loop ends with the connection it served.
DisconnectHookReturns ==
    /\ srvPc = "unhook"
    /\ conns' = IF onDisconnectFn
                THEN [conns EXCEPT ![cur].events = Append(@, "disconnect")]
                ELSE conns
    /\ srvPc' = "returned"
    /\ UNCHANGED <<routerVars, registryVars, srvErr, onConnectedFn, onDisconnectFn>>

\* if s.onDisconnectFn != nil { s.onDisconnectFn(conn) }
DisconnectHook ==
    /\ srvPc = "unhook"
    /\ conns' = IF onDisconnectFn
                THEN [conns EXCEPT ![cur].events = Append(@, "disconnect")]
                ELSE conns
    /\ srvPc' = "accept"
    /\ UNCHANGED <<routerVars, registryVars, srvErr, onConnectedFn, onDisconnectFn>>

keepAccepting == Accept \/ ConnectHook \/ WaitClosed \/ DisconnectHook

\* Connection.Close: the first call closes the socket and fires Closed, a
\* later call does nothing.
Close(conn) ==
    IF conn.closed
    THEN conn
    ELSE [conn EXCEPT !.closed = TRUE, !.events = Append(@, "closed")]

\* A loop of connection c ends (its peer left, or a read or write failed) and
\* calls Close, or the application calls Close.
ConnClose(c, who) ==
    /\ c \in 1..Len(conns)
    /\ who \notin conns[c].closedBy
    /\ conns' = [conns EXCEPT ![c] = [Close(@) EXCEPT !.closedBy = @ \cup {who}]]
    /\ UNCHANGED <<routerVars, registryVars, srvPc, srvErr, onConnectedFn, onDisconnectFn>>

\* The application puts the session of an open connection into the registry
\* (from its connect hook, or later).
SessionAdd(c) ==
    /\ c \in 1..Len(conns)
    /\ ~conns[c].closed
    /\ c \notin DOMAIN mgSessions
    /\ mgSessions' = Add(mgSessions, NewSession(c))
    /\ UNCHANGED <<routerVars, srvPc, srvErr, onConnectedFn, onDisconnectFn, conns,
                   manager, inits, onceHeld, procs, nilAdds, lastGet, lastRange>>

\* The application takes a session out of the registry.
SessionRemove(c) ==
    /\ c \in DOMAIN mgSessions
    /\ mgSessions' = Remove(mgSessions, c)
    /\ UNCHANGED <<routerVars, srvPc, srvErr, onConnectedFn, onDisconnectFn, conns,
                   manager, inits, onceHeld, procs, nilAdds, lastGet, lastRange>>

\* ------------------------------------------------------------------ Spec
\* The router serving one session.
Next ==
    \/ RegisterCall
    \/ RegisterMiddlewareCall
    \/ NotFoundHandler
    \/ StartLoop
    \/ \E req \in Ids \cup {Nil} : Enqueue(req)
    \/ CloseSession
    \/ LoopRecv
    \/ \E g \in 1..MaxReqs : handleReq(g)

Spec == Init /\ [][Next]_vars

\* The scheduler runs every goroutine that can run: Loop, and each handleReq.
FairSpec ==
    /\ Spec
    /\ WF_vars(LoopRecv)
    /\ \A g \in 1..MaxReqs : WF_vars(handleReq(g))

\* The router after the setup
\*     RegisterMiddleware(g1, g2, g3)
\*     Register(1, h1, r1)
\*     Register(2, nil, r2)
\* The three appends of RegisterMiddleware leave the global slice with length
\* 3 on an array of 4.
RaceGlobals == appendEach(<<>>, 0, <<1, 2, 3>>, 1)

RaceCalls ==
    << [op |-> "RegisterMiddleware", id |-> Nil, h |-> Nil, m |-> <<1, 2, 3>>],
       [op |-> "Register", id |-> 1, h |-> 4, m |-> <<5>>],
       [op |-> "Register", id |-> 2, h |-> Nil, m |-> <<6>>] >>

RaceInit ==
    /\ phase = "setup"
    /\ nFn = 6
    /\ calls = RaceCalls
    /\ handlerMapper = [i \in Ids |-> registerHandler(Nil, RaceCalls[i + 1].h)]
    /\ middlewaresMapper = [i \in Ids |-> registerMiddlewares(<<>>, RaceCalls[i + 1].m)]
    /\ gArr = RaceGlobals[1]
    /\ gLen = RaceGlobals[2]
    /\ notFoundHandler = Nil
    /\ loopPc = "idle"
    /\ inbox = <<>>
    /\ produced = <<>>
    /\ closed = FALSE
    /\ gs = <<>>
    /\ outbox = <<>>
    /\ ServerInit
    /\ RegistryInit

\* Loop serving a session of that router.
RaceNext ==
    \/ StartLoop
    \/ \E req \in Ids \cup {Nil} : Enqueue(req)
    \/ CloseSession
    \/ LoopRecv
    \/ \E g \in 1..MaxReqs : handleReq(g)

RaceSpec == RaceInit /\ [][RaceNext]_vars

\* The server and its connections.
ServerNext ==
    \/ OnConnected
    \/ OnDisconnect
    \/ Serve
    \/ Accept
    \/ ConnectHook
    \/ WaitClosed
    \/ DisconnectHook
    \/ \E c \in 1..MaxConns, who \in Closers : ConnClose(c, who)
    \/ \E c \in 1..MaxConns : SessionAdd(c) \/ SessionRemove(c)

ServerSpec == Init /\ [][ServerNext]_vars

\* The application's goroutines using the registry.
RegistryNext ==
    \E p \in Procs :
        \/ SessionsEnter(p)
        \/ SessionsInit(p)
        \/ AddCall(p)
        \/ AddNil(p)
        \/ \E id \in Procs : GetCall(p, id)
        \/ RangeCall(p)

RegistrySpec == Init /\ [][RegistryNext]_vars

\* =================================================================== claims
\* ------------------------------------------------ what the calls asked for
RECURSIVE GivenUpTo(_, _, _)
\* The functions given to `op` (for id) by the first n calls, in order.
GivenUpTo(op, id, n) ==
    IF n = 0 THEN <<>>
    ELSE GivenUpTo(op, id, n - 1) \o
         (IF calls[n].op = op /\ calls[n].id = id THEN calls[n].m ELSE <<>>)

\* The global middlewares given to RegisterMiddleware, in order.
GlobalsGiven == GivenUpTo("RegisterMiddleware", Nil, Len(calls))

\* Every middleware given to Register for id, over all the calls.
RouteGiven(id) == GivenUpTo("Register", id, Len(calls))

\* The Register calls for id that gave a middleware / a handler.
MwCalls(id) ==
    {n \in 1..Len(calls) : /\ calls[n].op = "Register" /\ calls[n].id = id
                           /\ calls[n].m # <<>>}

HCalls(id) ==
    {n \in 1..Len(calls) : /\ calls[n].op = "Register" /\ calls[n].id = id
                           /\ calls[n].h # Nil}

Latest(S) == CHOOSE n \in S : \A k \in S : k <= n

\* The middlewares of the latest Register call for id that gave any.
RouteLast(id) == IF MwCalls(id) = {} THEN <<>> ELSE calls[Latest(MwCalls(id))].m

\* The handler of the latest Register call for id that gave one.
HandlerLast(id) == IF HCalls(id) = {} THEN Nil ELSE calls[Latest(HCalls(id))].h

\* The handler a request with that id is meant to reach.
Target(id) == IF HandlerLast(id) # Nil THEN HandlerLast(id) ELSE fallbackHandler

Gs == 1..Len(gs)

\* handleReq of g has called the chain (and it returned, or the handler blocks).
Called(g) == gs[g].pc \in {"send", "done", "blocked"}

\* Every middleware of g's chain called next: the handler was entered.
AllCalledNext(g) == Called(g) /\ gs[g].entered = gs[g].wrapped

\* g's append(middles, v...) wrote into the array of the global slice.
InPlace(g) == gs[g].shared /\ gs[g].n > gLen

\* C1: with global middlewares [G1, G2] and route middlewares [R1, R2] for X
\* (the global slice then has no spare capacity, so no dispatch appends in
\* place), the chain of a request X is G1, G2, R1, R2, handler, and when every
\* middleware calls next they are entered in that order, the handler last.
C1_ChainOrder ==
    \A g \in Gs :
        /\ Len(GlobalsGiven) = 2 => ~InPlace(g)
        /\ gs[g].pc \in {"wrapped", "send", "done", "blocked"} /\ ~InPlace(g)
              => gs[g].wrapped = GlobalsGiven \o RouteLast(gs[g].id) \o <<Target(gs[g].id)>>
        /\ AllCalledNext(g) /\ ~InPlace(g)
              => gs[g].entered = GlobalsGiven \o RouteLast(gs[g].id) \o <<Target(gs[g].id)>>

C1_Witness ==
    \E g \in Gs :
        /\ gs[g].pc = "done"
        /\ Len(GlobalsGiven) = 2
        /\ Len(RouteLast(gs[g].id)) = 2
        /\ HandlerLast(gs[g].id) # Nil
        /\ AllCalledNext(g)
        /\ Len(gs[g].entered) = 5

\* C2 (as claimed): the list stored for an id is every middleware given to
\* Register for it, over all the calls, in order.
C2_Additive == \A id \in Ids : middlewaresMapper[id] = RouteGiven(id)

\* C2 (amended): the list stored for an id is the one of the latest Register
\* call that gave a non-nil middleware (earlier lists are replaced), and that
\* list is what a dispatch of the id appends to the global ones.
C2_LastListWins ==
    /\ \A id \in Ids : middlewaresMapper[id] = RouteLast(id)
    /\ \A g \in Gs :
          gs[g].pc = "loaded" =>
             /\ gs[g].n = gLen + Len(RouteLast(gs[g].id))
             /\ ~gs[g].shared => gs[g].own = GlobalsGiven \o RouteLast(gs[g].id)

C2_Witness ==
    \E g \in Gs :
        /\ Len(RouteGiven(gs[g].id)) > Len(RouteLast(gs[g].id))
        /\ Cardinality(MwCalls(gs[g].id)) = 2
        /\ gs[g].pc = "done"
        /\ AllCalledNext(g)

\* C3: the handler stored for an id is the one of the latest Register call
\* for that id with a non-nil handler, and a request with the id is dispatched
\* to it (to the fallback when there is none), never to another handler.
C3_LastHandlerWins ==
    /\ \A id \in Ids : handlerMapper[id] = HandlerLast(id)
    /\ \A g \in Gs :
          /\ gs[g].pc # "start" => gs[g].handler = HandlerLast(gs[g].id)
          /\ gs[g].pc \in {"wrapped", "send", "done", "blocked"}
                => gs[g].wrapped[Len(gs[g].wrapped)] = Target(gs[g].id)
          /\ AllCalledNext(g) => gs[g].entered[Len(gs[g].entered)] = Target(gs[g].id)

C3_Witness ==
    \E g \in Gs :
        /\ Cardinality(HCalls(gs[g].id)) = 2
        /\ gs[g].pc = "done"
        /\ AllCalledNext(g)
        /\ gs[g].entered[Len(gs[g].entered)] = HandlerLast(gs[g].id)

\* The ids of the requests Loop has dispatched, in order.
DispatchedIds == [g \in Gs |-> gs[g].id]

Occurrences(seq, x) == Cardinality({i \in 1..Len(seq) : seq[i] = x})

InOutbox(g) == \E i \in 1..Len(outbox) : outbox[i] = g

\* C4: the non-nil requests put on the channel are dispatched one goroutine
\* each, in order, none skipped and none twice; and a request whose id has a
\* handler H, when every middleware calls next, enters H exactly once.
C4_EachRequestOnce ==
    /\ DispatchedIds \o FnsOf(inbox) = FnsOf(produced)
    /\ \A g \in Gs :
          HandlerLast(gs[g].id) # Nil =>
             /\ Occurrences(gs[g].entered, HandlerLast(gs[g].id)) <= 1
             /\ AllCalledNext(g) => Occurrences(gs[g].entered, HandlerLast(gs[g].id)) = 1

C4_Witness ==
    /\ Len(gs) = 2
    /\ Len(produced) = 2
    /\ \A g \in Gs :
          /\ gs[g].pc = "done"
          /\ HandlerLast(gs[g].id) # Nil
          /\ AllCalledNext(g)
          /\ Len(gs[g].entered) >= 2

Unrouted(g) == AllCalledNext(g) /\ HandlerLast(gs[g].id) = Nil

NonNilSeen == Len(gs) + Len(FnsOf(inbox))

\* handleReq of the k-th request is over, or its own handler blocks.
Finished(k) ==
    /\ k <= Len(gs)
    /\ \/ gs[k].pc = "blocked"
       \/ gs[k].pc = "done" /\ (gs[k].result = "resp" => gs[k].sends = 1)

\* C6: under fair scheduling every request put on the channel is dispatched
\* and its chain runs to the end, its response passed to SendResp, whatever
\* handlers of other requests are blocked: only its own handler can block it.
C6_BlockedHandlerDelaysNoOther ==
    \A k \in 1..MaxReqs : (NonNilSeen >= k) ~> Finished(k)

C6_Witness ==
    /\ Len(gs) = 2
    /\ gs[1].pc = "blocked"
    /\ gs[2].pc = "done"
    /\ gs[2].result = "resp"
    /\ outbox = <<2>>

\* C7: SendResp is called once for a chain that returned a response and no
\* error, and not at all for an error or a nil response; after a handler error
\* the loop still takes the next request.
C7_SendOnlyResponse ==
    /\ \A g \in Gs :
          /\ gs[g].pc = "done" => gs[g].sends = (IF gs[g].result = "resp" THEN 1 ELSE 0)
          /\ gs[g].pc # "done" => gs[g].sends = 0
          /\ gs[g].result = "err" => gs[g].err = "handler" /\ gs[g].pc = "done"
          /\ InOutbox(g) => gs[g].result = "resp" /\ Occurrences(outbox, g) = 1
    /\ (\E g \in Gs : gs[g].err = "handler") /\ inbox # <<>> => ENABLED LoopRecv

C7_Witness ==
    /\ Len(gs) = 2
    /\ gs[1].pc = "done" /\ gs[1].err = "handler" /\ gs[1].sends = 0
    /\ gs[2].pc = "done" /\ gs[2].result = "resp" /\ gs[2].sends = 1
    /\ outbox = <<2>>

\* C8 (as claimed): once the connect hook of the connection accepted last is
\* past, the accept loop can go on while that connection is still open.
C8_AcceptNotBlockedByOpenConn ==
    srvPc = "wait" /\ ~conns[cur].closed => ENABLED keepAccepting

Has(ev, e) == \E i \in 1..Len(ev) : ev[i] = e

Pos(ev, e) == CHOOSE i \in 1..Len(ev) : ev[i] = e

\* C9: each accepted connection has one read loop and one write loop started,
\* then its connect hook run (before the next accept), each event once; its
\* disconnect hook runs only after its closed signal, and after its connect hook.
C9_LifecycleOrder ==
    \A c \in 1..Len(conns) :
        LET ev == conns[c].events
        IN  /\ Len(ev) >= 2 /\ ev[1] = "read" /\ ev[2] = "write"
            /\ \A e \in {"read", "write", "connect", "closed", "disconnect"} :
                  Occurrences(ev, e) <= 1
            /\ onConnectedFn /\ (c < cur \/ srvPc # "hook") => Has(ev, "connect")
            /\ Has(ev, "connect") => Pos(ev, "connect") = 3 \/ ev[3] = "closed"
            /\ Has(ev, "disconnect") =>
                  /\ Has(ev, "closed") /\ Pos(ev, "closed") < Pos(ev, "disconnect")
                  /\ onConnectedFn => Pos(ev, "connect") < Pos(ev, "disconnect")

C9_Witness ==
    /\ Len(conns) >= 2
    /\ conns[1].events = <<"read", "write", "connect", "closed", "disconnect">>

\* C10: Loop exits only once the session's channel is closed and drained (not
\* on a nil request, a handler error or a failed SendResp), and once it is
\* closed the loop does exit.
C10_LoopStopsOnlyOnClose ==
    /\ [](loopPc = "exit" => closed /\ inbox = <<>>)
    /\ closed ~> (loopPc = "exit")

C10_Witness ==
    /\ loopPc = "exit"
    /\ Len(produced) = 2
    /\ produced[1] = Nil
    /\ Len(gs) = 1
    /\ gs[1].err = "send"

\* C11: whoever calls Close on a connection, and however often, the call
\* returns (it is never blocked), the closed signal fires once, on the first
\* call, and the server's receive from conn.Closed returns once for the
\* connection, after the signal.
C11_CloseOnce ==
    \A c \in 1..Len(conns) :
        /\ Occurrences(conns[c].events, "closed") = (IF conns[c].closed THEN 1 ELSE 0)
        /\ conns[c].closed <=> conns[c].closedBy # {}
        /\ \A who \in Closers \ conns[c].closedBy : ENABLED ConnClose(c, who)
        /\ conns[c].waits <= 1
        /\ conns[c].waits = 1 => conns[c].closed
        /\ c < cur => conns[c].waits = 1
        /\ c = cur /\ srvPc = "wait" /\ conns[c].closed => ENABLED WaitClosed

C11_Witness ==
    /\ Len(conns) = 2
    /\ conns[1].closedBy = Closers
    /\ conns[1].waits = 1
    /\ conns[2].closedBy = {"read", "write"}
    /\ srvPc = "unhook"

HasAdded(p) == procs[p].pc = "added"

\* C12: the registry holds exactly the sessions whose Add has returned, each
\* under its own id (Add(nil) adds nothing); Get returns the very session
\* added under the id, and nil for an id not added; Range visits as many
\* sessions as Add calls had returned, and only sessions that were added.
C12_RegistryReflectsAdds ==
    /\ mgSessions = [p \in {q \in Procs : HasAdded(q)} |-> NewSession(p)]
    /\ \A p \in Procs :
          Get(mgSessions, p) = (IF HasAdded(p) THEN NewSession(p) ELSE NoSession)
    /\ lastGet # <<>> =>
          /\ lastGet[1].sess \in {NoSession, NewSession(lastGet[1].id)}
          /\ ~HasAdded(lastGet[1].id) => lastGet[1].sess = NoSession
    /\ lastRange # <<>> =>
          /\ Cardinality(lastRange[1].seen) = lastRange[1].adds
          /\ lastRange[1].seen \subseteq {NewSession(p) : p \in {q \in Procs : HasAdded(q)}}

C12_Witness ==
    /\ \A p \in Procs : HasAdded(p)
    /\ nilAdds > 0
    /\ lastRange # <<>> /\ Cardinality(lastRange[1].seen) = MaxProcs
    /\ lastGet # <<>> /\ lastGet[1].sess = NewSession(MaxProcs)

\* C17: however the first Sessions() calls of the goroutines interleave, one
\* Manager is made, at most one goroutine is making it, and every call that
\* has returned returned that one non-nil manager.
C17_OneManager ==
    /\ inits <= 1
    /\ manager = inits
    /\ Cardinality({p \in Procs : procs[p].pc = "init"}) <= 1
    /\ \A p \in Procs : Using(p) => procs[p].mgr = manager /\ procs[p].mgr # Nil

C17_Witness ==
    /\ \A p \in Procs : procs[p].pc = "have" /\ procs[p].mgr = manager
    /\ manager # Nil
    /\ inits = 1

\* The accept loop has no step left to take for connection c.
ServerDoneWith(c) == c < cur \/ (c = cur /\ srvPc \in {"accept", "returned"})

\* C13 (as claimed): when the server has dealt with the close of a connection
\* (its closed signal fired, its disconnect hook is past), the connection's
\* session is no longer in the registry: Get(id) returns nil.
C13_RemovedAfterClose ==
    \A c \in 1..Len(conns) :
        conns[c].closed /\ ServerDoneWith(c) => Get(mgSessions, c) = NoSession

\* C14: Serve has returned exactly when it has an error to return: the error
\* of Listen, with no connection ever accepted, or the error of Accept, and
\* then every connection accepted before was served to its end. The loop
\* returns from nowhere but the Listen and Accept calls, and a step that
\* closes a connection leaves the loop where it is.
C14_ReturnsOnlyOnListenerError ==
    /\ [](/\ srvPc = "returned" <=> srvErr # "none"
          /\ srvErr \in {"none", "listen", "accept"}
          /\ srvErr = "listen" => conns = <<>>
          /\ srvErr = "accept" => \A c \in 1..Len(conns) : conns[c].waits = 1)
    /\ [][/\ srvPc' = "returned" => srvPc \in {"new", "accept", "returned"}
          /\ (\E c \in 1..Len(conns) : conns'[c].closedBy # conns[c].closedBy)
                => srvPc' = srvPc /\ srvErr' = srvErr]_vars

C14_Witness ==
    /\ srvPc = "returned"
    /\ srvErr = "accept"
    /\ Len(conns) = 2
    /\ \A c \in 1..2 : conns[c].closed /\ conns[c].closedBy = Closers

\* The chain of every dispatched request is the global middlewares, then the
\* middlewares registered for its id, then its handler.
ChainOfOwnId ==
    \A g \in Gs :
        gs[g].pc \in {"wrapped", "send", "done", "blocked"}
            => gs[g].wrapped = GlobalsGiven \o RouteLast(gs[g].id) \o <<Target(gs[g].id)>>

\* The global slice and the array behind it are as registration left them.
GlobalsUntouched ==
    /\ globalMiddlewares = GlobalsGiven
    /\ gArr = GlobalsGiven \o Zeros(Len(gArr) - gLen)

\* C15 (as claimed): whatever handleReq calls run, and however they interleave,
\* the chain of a request is the global middlewares followed by the
\* middlewares of its own id, and the global list and its array stay as
\* registration left them.
C15_DispatchOnlyReads == ChainOfOwnId /\ GlobalsUntouched

\* C16: Loop takes the requests in the order the read loop enqueued them (the
\* k-th goroutine has the k-th non-nil request), and a goroutine that has a
\* response to send can send it whatever the other goroutines have done: of
\* two requests with responses pending either one may be sent first.
C16_TakenInOrderSentInAny ==
    /\ DispatchedIds = SubSeq(FnsOf(produced), 1, Len(gs))
    /\ \A g \in Gs : gs[g].pc = "send" => ENABLED hSend(g)
    /\ \A i \in 1..Len(outbox) : outbox[i] \in Gs /\ gs[outbox[i]].sends = 1

\* B's response is sent before A's, A being the request taken first.
C16_Witness ==
    /\ Len(gs) = 2
    /\ gs[1].id # gs[2].id
    /\ outbox = <<2, 1>>

\* A's response is sent before B's.
C16_InOrderReached ==
    /\ Len(gs) = 2
    /\ gs[1].id # gs[2].id
    /\ outbox = <<1, 2>>

\* A request whose id never got a handler, with no not-found handler set.
NoHandler(g) == HandlerLast(gs[g].id) = Nil /\ notFoundHandler = Nil

\* C18 (as claimed): the chain of a request without handler is the global
\* middlewares, the middlewares stored for its id, then defaultHandler; when all
\* of them call next they are entered in that order and defaultHandler returns
\* nil, nil: the request gets a response only from a middleware that returns
\* one itself.
C18_MiddlewaresWrapFallback ==
    \A g \in Gs :
        NoHandler(g) =>
            /\ gs[g].pc \in {"wrapped", "send", "done", "blocked"} =>
                  gs[g].wrapped = GlobalsGiven \o RouteLast(gs[g].id) \o <<defaultHandler>>
            /\ Called(g) =>
                  /\ gs[g].entered = SubSeq(gs[g].wrapped, 1, Len(gs[g].entered))
                  /\ gs[g].pc # "blocked"
                  /\ AllCalledNext(g) =>
                        gs[g].result = "nil" /\ gs[g].err = "none" /\ gs[g].sends = 0
                  /\ gs[g].result = "resp" =>
                        /\ Len(gs[g].entered) < Len(gs[g].wrapped)
                        /\ Len(GlobalsGiven \o RouteLast(gs[g].id)) > 0
            /\ InOutbox(g) => gs[g].result = "resp"

\* The registration call a step makes: the entry it adds to calls.
NewCall == calls'[Len(calls')]

\* C19: a Register call with a nil handler leaves the handlers as they are, a
\* Register call that gives no function as middleware (no argument, or only
\* nil ones) leaves the stored lists as they are, likewise RegisterMiddleware
\* and the global list; and no stored list, nor the global list, holds a nil.
C19_NilChangesNothing ==
    /\ [](/\ \A id \in Ids : \A i \in 1..Len(middlewaresMapper[id]) :
                middlewaresMapper[id][i] # Nil
          /\ \A i \in 1..gLen : gArr[i] # Nil)
    /\ [][Len(calls') = Len(calls) + 1 =>
            /\ NewCall.op = "Register" /\ NewCall.h = Nil
                  => handlerMapper' = handlerMapper
            /\ NewCall.op = "Register" /\ NewCall.m = <<>>
                  => middlewaresMapper' = middlewaresMapper
            /\ NewCall.op = "RegisterMiddleware" /\ NewCall.m = <<>>
                  => gArr' = gArr /\ gLen' = gLen]_vars

\* Register(X, h, a) followed by Register(X, nil) or Register(X, nil, nil...).
C19_Witness ==
    /\ Len(calls) = 2
    /\ calls[1].op = "Register" /\ calls[1].h # Nil /\ calls[1].m # <<>>
    /\ calls[2].op = "Register" /\ calls[2].id = calls[1].id
    /\ calls[2].h = Nil /\ calls[2].m = <<>>
    /\ handlerMapper[calls[1].id] = calls[1].h
    /\ middlewaresMapper[calls[1].id] = calls[1].m

====
